---- MODULE Spec2Model ----
(***************************************************************************)
(* starbot: a Discord bot that polls the Star Realms service and reports   *)
(* turn changes, new challenges and finished games (src/src/main.rs).      *)
(*                                                                         *)
(* The tracker (struct StarRealmsShared) is modelled with its three detect *)
(* operations check_turns / check_challenges / check_finished as pure      *)
(* operators over the struct's fields.  The specifications:                 *)
(*   TurnsSpec    the struct alone: new() (priming) followed by successive *)
(*                check_turns calls over arbitrary snapshots;              *)
(*   IdsSpec      the struct alone: new() followed by any sequence of      *)
(*                check_challenges and check_finished calls;               *)
(*   Spec         the whole process: main, the ready handlers, the poll    *)
(*                tasks they spawn, the message handlers and the           *)
(*                Arc<RwLock<StarRealmsShared>> they share, with the clock *)
(*                standing still.                                          *)
(*   ClockSpec    the struct alone with time passing: new() followed by    *)
(*                any sequence of the three detect operations;             *)
(*   TimedSpec    the process with time passing, for one ready event;      *)
(*   LiveSpec     the process for one ready event and the message          *)
(*                handlers, under the scheduling of the tokio runtime.     *)
(***************************************************************************)
EXTENDS Integers, Sequences, FiniteSets, TLC

\* ---------------------------------------------------------------- bounds
\* game ids of the activity source are 1..NumGames
NumGames == 2
\* challenge ids and finished-game ids are 1..NumIds
NumIds == 1
\* longest list (activegames, challenges, finishedgames) of a snapshot
MaxLen == 2
\* check_* calls made on the struct after new() (TurnsSpec, IdsSpec)
MaxCalls == 4

GameIds == 1..NumGames
ItemIds == 1..NumIds
\* the two participants a game's which_turn() can name
Owners == {"Alice", "Bob"}

\* ---------------------------------------------------------------- data
\* star_realms_rs::Game, reduced to the fields the tracker reads: the id and
\* the value which_turn() derives.
Game == [id : GameIds, turn : Owners]

\* game.which_turn(): the comparison key of check_turns
which_turn(game) == game.turn

Range(s) == {s[i] : i \in DOMAIN s}

SeqsUpTo(S, n) == UNION {[1..k -> S] : k \in 0..n}

\* activity.activegames: a game id is unique among the active games
ActiveLists ==
    {s \in SeqsUpTo(Game, MaxLen) :
        \A i, j \in DOMAIN s : s[i].id = s[j].id => i = j}

\* activity.challenges / activity.finishedgames, as the lists of their ids
\* (the service is not trusted to send an id once)
IdLists == SeqsUpTo(ItemIds, MaxLen)

\* HashMap<i64, Game>: a function from the ids present to the games
EmptyMap == [i \in {} |-> 0]

\* map.insert(k, v)
Insert(map, k, v) == [i \in (DOMAIN map) \cup {k} |-> IF i = k THEN v ELSE map[i]]

\* the values of a map
Values(map) == {map[i] : i \in DOMAIN map}

\* extend() that keeps the entry the map already holds for a key
ExtendKeep(map, other) ==
    [i \in (DOMAIN map) \cup (DOMAIN other) |->
        IF i \in DOMAIN map THEN map[i] ELSE other[i]]

\* map.extend(other)
Extend(map, other) ==
    [i \in (DOMAIN map) \cup (DOMAIN other) |->
        IF i \in DOMAIN other THEN other[i] ELSE map[i]]

\* ---------------------------------------------------------------- tracker
\* TurnsLoop with the comparison of the turn-owners left out: only a game
\* that is not in game_turns is inserted
RECURSIVE TurnsLoopNewOnly(_, _, _)
TurnsLoopNewOnly(gt, games, turns) ==
    IF games = <<>> THEN turns
    ELSE LET game == Head(games)
         IN  IF game.id \notin DOMAIN gt
             THEN TurnsLoopNewOnly(gt, Tail(games), Insert(turns, game.id, game))
             ELSE TurnsLoopNewOnly(gt, Tail(games), turns)

\* the for loop of check_turns over activity.activegames
RECURSIVE TurnsLoop(_, _, _)
TurnsLoop(gt, games, turns) ==
    IF games = <<>> THEN turns
    ELSE LET game == Head(games)
         IN  IF game.id \notin DOMAIN gt
             THEN TurnsLoop(gt, Tail(games), Insert(turns, game.id, game))
             ELSE IF which_turn(gt[game.id]) # which_turn(game)
                  THEN TurnsLoop(gt, Tail(games), Insert(turns, game.id, game))
                  ELSE TurnsLoop(gt, Tail(games), turns)

\* check_turns keeping the entry game_turns already holds (entry().or_insert()
\* in place of extend())
check_turns_keep_old(self, activegames, t) ==
    LET turns == TurnsLoop(self.game_turns, activegames, EmptyMap)
    IN  [ret  |-> turns,
         self |-> IF turns # EmptyMap
                  THEN [self EXCEPT !.game_turns = Extend(turns, self.game_turns),
                                    !.last_update = t]
                  ELSE self]

\* check_turns with the test of line 88 inverted: game_turns is never extended
check_turns_no_store(self, activegames, t) ==
    LET turns == TurnsLoop(self.game_turns, activegames, EmptyMap)
    IN  [ret  |-> turns,
         self |-> IF turns = EmptyMap
                  THEN [self EXCEPT !.game_turns = Extend(self.game_turns, turns),
                                    !.last_update = t]
                  ELSE self]

\* check_turns that drops from game_turns the games the snapshot no longer has
check_turns_prune(self, activegames, t) ==
    LET turns == TurnsLoop(self.game_turns, activegames, EmptyMap)
        all   == Extend(self.game_turns, turns)
        live  == {activegames[k].id : k \in DOMAIN activegames}
    IN  [ret  |-> turns,
         self |-> [self EXCEPT
                     !.game_turns = [i \in (DOMAIN all) \cap live |-> all[i]],
                     !.last_update = IF turns # EmptyMap THEN t ELSE @]]

\* check_turns on a fetched activity: the returned map and the fields after
check_turns(self, activegames, t) ==
    LET turns == TurnsLoop(self.game_turns, activegames, EmptyMap)
    IN  [ret  |-> turns,
         self |-> IF turns # EmptyMap
                  THEN [self EXCEPT !.game_turns = Extend(self.game_turns, turns),
                                    !.last_update = t]
                  ELSE self]

\* NewIdsLoop with the push of lines 102 / 120 moved behind the loop: an id
\* is recorded as seen only when the whole list has been walked
RECURSIVE NewIdsLoopLatePush(_, _, _)
NewIdsLoopLatePush(seen, ids, out) ==
    IF ids = <<>> THEN [seen |-> seen \o out, out |-> out]
    ELSE LET id == Head(ids)
         IN  IF id \notin Range(seen)
             THEN NewIdsLoopLatePush(seen, Tail(ids), Append(out, id))
             ELSE NewIdsLoopLatePush(seen, Tail(ids), out)

\* the for loop of check_challenges / check_finished: seen is self.challenges
\* (self.finished), out the local vector returned
RECURSIVE NewIdsLoop(_, _, _)
NewIdsLoop(seen, ids, out) ==
    IF ids = <<>> THEN [seen |-> seen, out |-> out]
    ELSE LET id == Head(ids)
         IN  IF id \notin Range(seen)
             THEN NewIdsLoop(Append(seen, id), Tail(ids), Append(out, id))
             ELSE NewIdsLoop(seen, Tail(ids), out)

\* check_challenges with the test of line 108 left out: last_update is assigned
\* by every call
check_challenges_always_stamp(self, chals, t) ==
    LET r == NewIdsLoop(self.challenges, chals, <<>>)
    IN  [ret  |-> r.out,
         self |-> [self EXCEPT !.challenges = r.seen, !.last_update = t]]

check_challenges(self, chals, t) ==
    LET r == NewIdsLoop(self.challenges, chals, <<>>)
    IN  [ret  |-> r.out,
         self |-> [self EXCEPT !.challenges = r.seen,
                               !.last_update = IF r.out # <<>> THEN t ELSE @]]

check_finished(self, fins, t) ==
    LET r == NewIdsLoop(self.finished, fins, <<>>)
    IN  [ret  |-> r.out,
         self |-> [self EXCEPT !.finished = r.seen,
                               !.last_update = IF r.out # <<>> THEN t ELSE @]]

\* ---------------------------------------------------------------- bounds of the process
\* ready events the gateway delivers
MaxReady == 2
\* messages the gateway delivers
MaxMsgs == 1
\* ---------------------------------------------------------------- state
VARIABLES
    sr,         \* the StarRealmsShared value: game_turns, challenges, finished, last_update
    now,        \* what Instant::now() returns, in seconds
    mainpc,     \* where main() is
    returned,   \* observer: how often each game was returned as a game not yet in
                \* game_turns, and each challenge id / finished-game id at all
                \* (2 = more than once)
    \* observers of the struct alone (TurnsSpec, IdsSpec)
    ncalls,     \* check_* calls made on sr after new()
    last,       \* the latest check_* call: its operation, the list it fetched, what it
                \* returned, and (check_turns) whether the check_turns call before it
                \* fetched the same list
    tcalls,     \* check_turns calls made so far, the one of new() included
    lastActive, \* activity.activegames of the latest check_turns call
    watch,      \* one game followed through the check_turns calls
    \* the process (Spec)
    looping,    \* Handler.looping
    rpc,        \* where each ready handler is
    ppc,        \* where each poll task is ("none": not spawned)
    mpc,        \* where each message handler is
    holder,     \* the task holding the write lock of the RwLock around sr
    waitq,      \* the tasks waiting in write().await, first come first
    iter,       \* per task, what is left of the for loop it is in
    interval,   \* per poll task, the seconds it sleeps
    sent,       \* observer: per poll task, the say() calls of its current cycle
    primed,     \* observer: the lists new() fetched, kept while the first poll
                \* cycle fetches the same ones
    cycles,     \* observer: poll cycles begun (2 = more than one)
    wrote,      \* observer: per poll task, whether its current cycle has changed sr
    found,      \* observer: per poll task, the items its current cycle detected, in
                \* the order its for loops walk them
    log,        \* observer: per poll task, the say() calls of its current cycle in
                \* the order they were made, each with its outcome
    snap,       \* observer: per poll task, the ids of the list fetched for the for
                \* loop it is in
    tried,      \* observer: how often say() was called for each challenge id and
                \* finished-game id (2 = more than once)
    listed       \* observer: the challenge ids a !chal command listed when they were
                \* not in sr.challenges, kept to the end of the poll cycle that
                \* detects them

structObs == <<ncalls, last, tcalls, lastActive, watch>>

notifyObs == <<found, log, snap, tried>>

procVars == <<looping, rpc, ppc, mpc, holder, waitq, iter, interval, sent,
              primed, cycles, wrote, found, log, snap, tried, listed>>

vars == <<sr, now, mainpc, returned, ncalls, last, tcalls, lastActive, watch,
          looping, rpc, ppc, mpc, holder, waitq, iter, interval, sent,
          primed, cycles, wrote, found, log, snap, tried, listed>>

Readies == 1..MaxReady
Msgs == 1..MaxMsgs
\* the poll task spawned by ready handler i, the handler of message j
PollTask(i) == <<"poll", i>>
MsgTask(j) == <<"msg", j>>
NoTask == <<"none", 0>>

\* the struct literal of new()
InitialShared ==
    [game_turns |-> EmptyMap, challenges |-> <<>>, finished |-> <<>>, last_update |-> 0]

NotPrimed == [known |-> FALSE, active |-> <<>>, chal |-> <<>>, fin |-> <<>>]

Init ==
    /\ sr = InitialShared
    /\ now = 0
    /\ mainpc = "new_turns"
    /\ returned = [game |-> [g \in GameIds |-> 0],
                   chal |-> [i \in ItemIds |-> 0],
                   fin  |-> [i \in ItemIds |-> 0]]
    /\ ncalls = 0
    /\ last = [op |-> "none", activity |-> <<>>, ret |-> <<>>, same |-> FALSE]
    /\ tcalls = 0
    /\ lastActive = <<>>
    /\ watch = [game |-> 0, always |-> TRUE, changes |-> 0, reports |-> 0,
                firstChange |-> 0, firstReport |-> 0, gone |-> FALSE]
    /\ looping = FALSE
    /\ rpc = [i \in Readies |-> "idle"]
    /\ ppc = [i \in Readies |-> "none"]
    /\ mpc = [j \in Msgs |-> "idle"]
    /\ holder = NoTask
    /\ waitq = <<>>
    /\ iter = [t \in {PollTask(i) : i \in Readies} \cup {MsgTask(j) : j \in Msgs} |-> <<>>]
    /\ interval = [i \in Readies |-> 0]
    /\ sent = [i \in Readies |-> 0]
    /\ primed = NotPrimed
    /\ cycles = 0
    /\ wrote = [i \in Readies |-> FALSE]
    /\ found = [i \in Readies |-> <<>>]
    /\ log = [i \in Readies |-> <<>>]
    /\ snap = [i \in Readies |-> <<>>]
    /\ tried = [chal |-> [k \in ItemIds |-> 0], fin |-> [k \in ItemIds |-> 0]]
    /\ listed = [k \in ItemIds |-> FALSE]

\* ---------------------------------------------------------------- observers
Min(a, b) == IF a < b THEN a ELSE b

\* the owner of game g in a list of active games ("absent" when it is not there)
OwnerIn(games, g) ==
    IF \E i \in DOMAIN games : games[i].id = g
    THEN which_turn(games[CHOOSE i \in DOMAIN games : games[i].id = g])
    ELSE "absent"

\* returned.chal / returned.fin, after a call returned the ids of out
CountReturned(cnt, out) ==
    [i \in ItemIds |->
        Min(2, cnt[i] + Cardinality({k \in DOMAIN out : out[k] = i}))]

\* returned.game, after check_turns returned turns when game_turns was gt
CountNewGames(cnt, gt, turns) ==
    [g \in GameIds |->
        Min(2, cnt[g] + (IF g \in DOMAIN turns /\ g \notin DOMAIN gt THEN 1 ELSE 0))]

\* watch, after the check_turns call number n fetched activegames and returned turns.
\* A game that misses a snapshot is followed no further, but for gone: whether
\* it ever missed a snapshot while it was in game_turns.
Watched(w, prev, activegames, turns, n) ==
    LET g       == w.game
        cur     == OwnerIn(activegames, g)
        changed == n > 1 /\ cur # OwnerIn(prev, g)
        shown   == n > 1 /\ g \in DOMAIN turns
    IN  IF ~w.always \/ cur = "absent"
        THEN [game |-> g, always |-> FALSE, changes |-> 0, reports |-> 0,
              firstChange |-> 0, firstReport |-> 0, gone |-> w.gone]
        ELSE [w EXCEPT
                !.changes = Min(2, @ + (IF changed THEN 1 ELSE 0)),
                !.reports = Min(2, @ + (IF shown THEN 1 ELSE 0)),
                !.firstChange = IF changed /\ @ = 0 THEN n ELSE @,
                !.firstReport = IF shown /\ @ = 0 THEN n ELSE @]

\* ---------------------------------------------------------------- the calls
\* sr.check_turns() when self.sr.activity() returns activegames
DoCheckTurns(activegames) ==
    LET r == check_turns(sr, activegames, now)
    IN  /\ sr' = r.self
        /\ returned' = [returned EXCEPT
                          !.game = CountNewGames(@, sr.game_turns, r.ret)]

\* sr.check_challenges() when self.sr.activity() returns chals
DoCheckChallenges(chals) ==
    LET r == check_challenges(sr, chals, now)
    IN  /\ sr' = r.self
        /\ returned' = [returned EXCEPT !.chal = CountReturned(@, r.ret)]

\* sr.check_finished() when self.sr.activity() returns fins
DoCheckFinished(fins) ==
    LET r == check_finished(sr, fins, now)
    IN  /\ sr' = r.self
        /\ returned' = [returned EXCEPT !.fin = CountReturned(@, r.ret)]

\* what the struct-alone specifications observe of a call
SeeCheckTurns(activegames, g) ==
    LET r == check_turns(sr, activegames, now)
    IN  /\ last' = [op |-> "check_turns", activity |-> activegames, ret |-> r.ret,
                    same |-> tcalls >= 1 /\ activegames = lastActive]
        /\ tcalls' = tcalls + 1
        /\ lastActive' = activegames
        /\ watch' = Watched([watch EXCEPT
                                !.game = g,
                                !.gone = @ \/ (/\ g \in DOMAIN sr.game_turns
                                               /\ OwnerIn(activegames, g) = "absent")],
                            lastActive, activegames, r.ret, tcalls + 1)

SeeCheckChallenges(chals) ==
    /\ last' = [op |-> "check_challenges", activity |-> chals,
                ret |-> check_challenges(sr, chals, now).ret, same |-> FALSE]
    /\ UNCHANGED <<tcalls, lastActive, watch>>

SeeCheckFinished(fins) ==
    /\ last' = [op |-> "check_finished", activity |-> fins,
                ret |-> check_finished(sr, fins, now).ret, same |-> FALSE]
    /\ UNCHANGED <<tcalls, lastActive, watch>>

\* ---------------------------------------------------------------- the struct alone
\* new(): the three priming calls; the game to follow is picked with the first
NewCheckTurns ==
    /\ mainpc = "new_turns"
    /\ \E a \in ActiveLists, g \in GameIds : DoCheckTurns(a) /\ SeeCheckTurns(a, g)
    /\ mainpc' = "new_challenges"
    /\ UNCHANGED <<now, ncalls, procVars>>

NewCheckChallenges ==
    /\ mainpc = "new_challenges"
    /\ \E c \in IdLists : DoCheckChallenges(c) /\ SeeCheckChallenges(c)
    /\ mainpc' = "new_finished"
    /\ UNCHANGED <<now, ncalls, procVars>>

NewCheckFinished ==
    /\ mainpc = "new_finished"
    /\ \E f \in IdLists : DoCheckFinished(f) /\ SeeCheckFinished(f)
    /\ mainpc' = "primed"
    /\ UNCHANGED <<now, ncalls, procVars>>

\* a fetch of new() fails: expect() panics in main and the process ends
NewPanics ==
    /\ mainpc \in {"new_turns", "new_challenges", "new_finished"}
    /\ mainpc' = "panicked"
    /\ UNCHANGED <<sr, now, returned, structObs, procVars>>

CallCheckTurns ==
    /\ mainpc = "primed" /\ ncalls < MaxCalls
    /\ \E a \in ActiveLists : DoCheckTurns(a) /\ SeeCheckTurns(a, watch.game)
    /\ ncalls' = ncalls + 1
    /\ UNCHANGED <<now, mainpc, procVars>>

CallCheckChallenges ==
    /\ mainpc = "primed" /\ ncalls < MaxCalls
    /\ \E c \in IdLists : DoCheckChallenges(c) /\ SeeCheckChallenges(c)
    /\ ncalls' = ncalls + 1
    /\ UNCHANGED <<now, mainpc, procVars>>

CallCheckFinished ==
    /\ mainpc = "primed" /\ ncalls < MaxCalls
    /\ \E f \in IdLists : DoCheckFinished(f) /\ SeeCheckFinished(f)
    /\ ncalls' = ncalls + 1
    /\ UNCHANGED <<now, mainpc, procVars>>

\* the fetch of a call fails: expect() panics before the call touched sr
CallPanics ==
    /\ mainpc = "primed" /\ ncalls < MaxCalls
    /\ mainpc' = "panicked"
    /\ UNCHANGED <<sr, now, returned, structObs, procVars>>

\* new(), then successive check_turns calls
TurnsNext ==
    \/ NewCheckTurns \/ NewCheckChallenges \/ NewCheckFinished \/ NewPanics
    \/ CallCheckTurns \/ CallPanics

TurnsSpec == Init /\ [][TurnsNext]_vars

\* new(), then any sequence of check_challenges and check_finished calls
IdsNext ==
    \/ NewCheckTurns \/ NewCheckChallenges \/ NewCheckFinished \/ NewPanics
    \/ CallCheckChallenges \/ CallCheckFinished \/ CallPanics

IdsSpec == Init /\ [][IdsNext]_vars

\* ---------------------------------------------------------------- the clock
\* tokio::time::Instant is finer than a second: the clock is read in steps of
\* 1 / SubSec seconds
SubSec == 2

\* Duration::as_secs(): the whole seconds of a duration
as_secs(d) == d \div SubSec

\* Duration::from_secs()
from_secs(n) == n * SubSec

\* Instant::now() is monotonic: between two steps of the program any of these
\* durations may pass (at a fetch, a delivery, a sleep, a wait for the lock):
\* 15 minutes, or half a second less than 30 minutes; the clock is followed
\* for MaxNow readings after the struct literal of new()
Delays == {from_secs(15 * 60), from_secs(30 * 60) - 1}
MaxNow == 3600

Tick ==
    /\ \E d \in Delays : now + d <= MaxNow /\ now' = now + d
    /\ UNCHANGED <<sr, mainpc, returned, structObs, procVars>>

\* new(), then any sequence of the three detect operations, with time passing
ClockNext ==
    \/ NewCheckTurns \/ NewCheckChallenges \/ NewCheckFinished \/ NewPanics
    \/ CallCheckTurns \/ CallCheckChallenges \/ CallCheckFinished \/ CallPanics
    \/ Tick

ClockSpec == Init /\ [][ClockNext]_vars

\* ---------------------------------------------------------------- the process
\* 30 * 60: the idle threshold of the poll loop, in seconds
IdleAfter == 30 * 60
\* main(): StarRealmsShared::new() fetches three times and sends nothing
MainCheckTurns ==
    /\ mainpc = "new_turns"
    /\ \E a \in ActiveLists :
          /\ DoCheckTurns(a)
          /\ primed' = [primed EXCEPT !.known = TRUE, !.active = a]
    /\ mainpc' = "new_challenges"
    /\ UNCHANGED <<now, structObs, looping, rpc, ppc, mpc, holder, waitq, iter,
                   interval, sent, cycles, wrote>>
    /\ UNCHANGED <<notifyObs, listed>>

MainCheckChallenges ==
    /\ mainpc = "new_challenges"
    /\ \E c \in IdLists :
          /\ DoCheckChallenges(c)
          /\ primed' = [primed EXCEPT !.chal = c]
    /\ mainpc' = "new_finished"
    /\ UNCHANGED <<now, structObs, looping, rpc, ppc, mpc, holder, waitq, iter,
                   interval, sent, cycles, wrote>>
    /\ UNCHANGED <<notifyObs, listed>>

\* new() without the effect of its check_finished(): the list is fetched and
\* what the call returns and records is lost
MainCheckFinishedLost ==
    /\ mainpc = "new_finished"
    /\ \E f \in IdLists : primed' = [primed EXCEPT !.fin = f]
    /\ mainpc' = "primed"
    /\ UNCHANGED <<sr, returned, now, structObs, looping, rpc, ppc, mpc, holder,
                   waitq, iter, interval, sent, cycles, wrote>>
    /\ UNCHANGED <<notifyObs, listed>>

MainCheckFinished ==
    /\ mainpc = "new_finished"
    /\ \E f \in IdLists :
          /\ DoCheckFinished(f)
          /\ primed' = [primed EXCEPT !.fin = f]
    /\ mainpc' = "primed"
    /\ UNCHANGED <<now, structObs, looping, rpc, ppc, mpc, holder, waitq, iter,
                   interval, sent, cycles, wrote>>
    /\ UNCHANGED <<notifyObs, listed>>

\* a fetch of new() fails: expect() panics in main, before the client exists
MainPanics ==
    /\ mainpc \in {"new_turns", "new_challenges", "new_finished"}
    /\ mainpc' = "panicked"
    /\ primed' = NotPrimed
    /\ UNCHANGED <<sr, now, returned, structObs, looping, rpc, ppc, mpc, holder,
                   waitq, iter, interval, sent, cycles, wrote>>
    /\ UNCHANGED <<notifyObs, listed>>

\* main(): the value goes into client.data and client.start() runs the gateway
ClientStart ==
    /\ mainpc = "primed"
    /\ mainpc' = "started"
    /\ UNCHANGED <<sr, now, returned, structObs, procVars>>

\* ---- Handler::ready
\* ReadyLoad without the test of the flag: every ready event spawns a poll loop
ReadyLoadAlways(i) ==
    /\ mainpc = "started" /\ rpc[i] = "idle"
    /\ i > 1 => rpc[i - 1] # "idle"
    /\ rpc' = [rpc EXCEPT ![i] = "swap"]
    /\ ppc' = [ppc EXCEPT ![i] = "lock"]
    /\ UNCHANGED <<sr, now, mainpc, returned, structObs, looping, mpc, holder,
                   waitq, iter, interval, sent, primed, cycles, wrote>>
    /\ UNCHANGED <<notifyObs, listed>>

\* the gateway delivers a ready event and serenity runs the handler as a task
\* of its own (events are numbered in the order they arrive):
\* if !self.looping.load(Ordering::Relaxed) { tokio::spawn(..) }
ReadyLoad(i) ==
    /\ mainpc = "started" /\ rpc[i] = "idle"
    /\ i > 1 => rpc[i - 1] # "idle"
    /\ rpc' = [rpc EXCEPT ![i] = "swap"]
    /\ ppc' = [ppc EXCEPT ![i] = IF looping THEN @ ELSE "lock"]
    /\ UNCHANGED <<sr, now, mainpc, returned, structObs, looping, mpc, holder,
                   waitq, iter, interval, sent, primed, cycles, wrote>>
    /\ UNCHANGED <<notifyObs, listed>>

\* self.looping.swap(true, Ordering::Relaxed)
ReadySwap(i) ==
    /\ rpc[i] = "swap"
    /\ rpc' = [rpc EXCEPT ![i] = "done"]
    /\ looping' = TRUE
    /\ UNCHANGED <<sr, now, mainpc, returned, structObs, ppc, mpc, holder,
                   waitq, iter, interval, sent, primed, cycles, wrote>>
    /\ UNCHANGED <<notifyObs, listed>>

\* ---- the RwLock around sr (tokio: write-locked by everyone, granted in
\* the order of the requests)
\* the guard of task t is dropped
Released(t) == IF holder = t THEN NoTask ELSE holder

\* the lock taken with read() in place of write(): a shared guard is granted
\* whatever guards are out
LockShared == TRUE

\* sr_lock.write().await is granted to the first waiting task when no guard is out
LockFree == holder = NoTask


\* ---- the poll task (the loop of lines 187-246)
\* the ids of a list of games
IdsOf(games) == [k \in DOMAIN games |-> games[k].id]

\* found, with the ids a check_* call of category cat returned put behind
Detected(f, cat, ids) == f \o [k \in DOMAIN ids |-> [cat |-> cat, item |-> ids[k]]]

\* listed, at the end of a cycle that detected the items of f
Unlisted(f) ==
    [k \in ItemIds |-> listed[k] /\ [cat |-> "chal", item |-> k] \notin Range(f)]

\* tried, after a say() for item of category cat
Tried(t, cat, item) ==
    CASE cat = "chal" -> [t EXCEPT !.chal[item] = Min(2, @ + 1)]
      [] cat = "fin"  -> [t EXCEPT !.fin[item] = Min(2, @ + 1)]
      [] OTHER        -> t

\* the orders in which a for loop can walk a HashMap
Orders(map) ==
    {q \in [1..Cardinality(DOMAIN map) -> Values(map)] :
        \A i, j \in DOMAIN q : q[i] = q[j] => i = j}

\* let mut sr = sr_lock.write().await: the request
PollLock(i) ==
    /\ ppc[i] = "lock"
    /\ ppc' = [ppc EXCEPT ![i] = "wait"]
    /\ waitq' = Append(waitq, PollTask(i))
    /\ UNCHANGED <<sr, now, mainpc, returned, structObs, looping, rpc, mpc, holder,
                   iter, interval, sent, primed, cycles, wrote>>
    /\ UNCHANGED <<notifyObs, listed>>

\* ... and the guard: a poll cycle begins
PollGranted(i) ==
    /\ ppc[i] = "wait"
    /\ LockFree /\ waitq # <<>> /\ Head(waitq) = PollTask(i)
    /\ holder' = PollTask(i)
    /\ waitq' = Tail(waitq)
    /\ ppc' = [ppc EXCEPT ![i] = "turns"]
    /\ cycles' = Min(2, cycles + 1)
    /\ primed' = IF cycles >= 1 THEN NotPrimed ELSE primed
    /\ wrote' = [wrote EXCEPT ![i] = FALSE]
    /\ UNCHANGED <<sr, now, mainpc, returned, structObs, looping, rpc, mpc,
                   iter, interval, sent>>
    /\ UNCHANGED <<notifyObs, listed>>

\* primed, after the poll loop fetched list for field f
StillPrimed(f, list) ==
    IF primed.known /\ primed[f] = list THEN primed ELSE NotPrimed

\* for turn in sr.check_turns().await: the call
PollCheckTurns(i) ==
    /\ ppc[i] = "turns"
    /\ \E a \in ActiveLists :
          /\ DoCheckTurns(a)
          /\ wrote' = [wrote EXCEPT ![i] = @ \/ check_turns(sr, a, now).self # sr]
          /\ primed' = StillPrimed("active", a)
          /\ \E q \in Orders(check_turns(sr, a, now).ret) :
                /\ iter' = [iter EXCEPT ![PollTask(i)] = q]
                /\ ppc' = [ppc EXCEPT ![i] = IF q = <<>> THEN "chal" ELSE "say_turns"]
                /\ found' = [found EXCEPT ![i] = Detected(@, "turn", IdsOf(q))]
                /\ snap' = [snap EXCEPT ![i] = IF q = <<>> THEN <<>> ELSE IdsOf(a)]
    /\ UNCHANGED <<now, mainpc, structObs, looping, rpc, mpc, holder, waitq,
                   interval, sent, cycles, log, tried, listed>>

\* for chal in sr.check_challenges().await: the call
PollCheckChallenges(i) ==
    /\ ppc[i] = "chal"
    /\ \E c \in IdLists :
          LET q == check_challenges(sr, c, now).ret
          IN  /\ DoCheckChallenges(c)
              /\ wrote' = [wrote EXCEPT ![i] = @ \/ check_challenges(sr, c, now).self # sr]
              /\ primed' = StillPrimed("chal", c)
              /\ iter' = [iter EXCEPT ![PollTask(i)] = q]
              /\ ppc' = [ppc EXCEPT ![i] = IF q = <<>> THEN "fin" ELSE "say_chal"]
              /\ found' = [found EXCEPT ![i] = Detected(@, "chal", q)]
              /\ snap' = [snap EXCEPT ![i] = IF q = <<>> THEN <<>> ELSE c]
    /\ UNCHANGED <<now, mainpc, structObs, looping, rpc, mpc, holder, waitq,
                   interval, sent, cycles, log, tried, listed>>

\* for fin in sr.check_finished().await: the call
PollCheckFinished(i) ==
    /\ ppc[i] = "fin"
    /\ \E f \in IdLists :
          LET q == check_finished(sr, f, now).ret
          IN  /\ DoCheckFinished(f)
              /\ wrote' = [wrote EXCEPT ![i] = @ \/ check_finished(sr, f, now).self # sr]
              /\ primed' = StillPrimed("fin", f)
              /\ iter' = [iter EXCEPT ![PollTask(i)] = q]
              /\ ppc' = [ppc EXCEPT ![i] = IF q = <<>> THEN "backoff" ELSE "say_fin"]
              /\ found' = [found EXCEPT ![i] = Detected(@, "fin", q)]
              /\ snap' = [snap EXCEPT ![i] = IF q = <<>> THEN <<>> ELSE f]
    /\ UNCHANGED <<now, mainpc, structObs, looping, rpc, mpc, holder, waitq,
                   interval, sent, cycles, log, tried, listed>>

\* self.sr.activity().await.expect("Could not get activity") of a check_* call
\* of the poll task: the fetch fails, the task panics, the unwinding drops the
\* guard and the task is gone
PollPanics(i) ==
    /\ ppc[i] \in {"turns", "chal", "fin"}
    /\ ppc' = [ppc EXCEPT ![i] = "panicked"]
    /\ holder' = Released(PollTask(i))
    /\ sent' = [sent EXCEPT ![i] = 0]
    /\ wrote' = [wrote EXCEPT ![i] = FALSE]
    /\ primed' = NotPrimed
    /\ found' = [found EXCEPT ![i] = <<>>]
    /\ log' = [log EXCEPT ![i] = <<>>]
    /\ listed' = Unlisted(found[i])
    /\ UNCHANGED <<sr, now, mainpc, returned, structObs, looping, rpc, mpc, waitq,
                   iter, interval, cycles, snap, tried>>

\* the category of the for loop a poll task is in
Category(pc) ==
    CASE pc = "say_turns" -> "turn"
      [] pc = "say_chal"  -> "chal"
      [] pc = "say_fin"   -> "fin"

\* PollSay with the for loop of the finished games placed before the for loop
\* of the challenges
PollSayFinishedFirst(i) ==
    /\ ppc[i] \in {"say_turns", "say_chal", "say_fin"}
    /\ \E ok \in BOOLEAN :
        LET q    == iter[PollTask(i)]
            cat  == Category(ppc[i])
            item == IF cat = "turn" THEN Head(q).id ELSE Head(q)
            next == CASE ppc[i] = "say_turns" -> "fin"
                      [] ppc[i] = "say_fin"   -> "chal"
                      [] ppc[i] = "say_chal"  -> "backoff"
        IN  /\ sent' = [sent EXCEPT ![i] = @ + 1]
            /\ log' = [log EXCEPT ![i] = Append(@, [cat |-> cat, item |-> item, ok |-> ok])]
            /\ tried' = Tried(tried, cat, item)
            /\ iter' = [iter EXCEPT ![PollTask(i)] = Tail(q)]
            /\ snap' = [snap EXCEPT ![i] = IF Tail(q) = <<>> THEN <<>> ELSE @]
            /\ ppc' = [ppc EXCEPT ![i] = IF Tail(q) = <<>> THEN next ELSE @]
    /\ UNCHANGED <<sr, now, mainpc, returned, structObs, looping, rpc, mpc, holder,
                   waitq, interval, primed, cycles, wrote, found, listed>>

\* PollSay with a break in the Err arm: a failed delivery ends the for loop
PollSayBreak(i) ==
    /\ ppc[i] \in {"say_turns", "say_chal", "say_fin"}
    /\ \E ok \in BOOLEAN :
        LET q    == iter[PollTask(i)]
            cat  == Category(ppc[i])
            item == IF cat = "turn" THEN Head(q).id ELSE Head(q)
            rest == IF ok THEN Tail(q) ELSE <<>>
            next == CASE ppc[i] = "say_turns" -> "chal"
                      [] ppc[i] = "say_chal"  -> "fin"
                      [] ppc[i] = "say_fin"   -> "backoff"
        IN  /\ sent' = [sent EXCEPT ![i] = @ + 1]
            /\ log' = [log EXCEPT ![i] = Append(@, [cat |-> cat, item |-> item, ok |-> ok])]
            /\ tried' = Tried(tried, cat, item)
            /\ iter' = [iter EXCEPT ![PollTask(i)] = rest]
            /\ snap' = [snap EXCEPT ![i] = IF rest = <<>> THEN <<>> ELSE @]
            /\ ppc' = [ppc EXCEPT ![i] = IF rest = <<>> THEN next ELSE @]
    /\ UNCHANGED <<sr, now, mainpc, returned, structObs, looping, rpc, mpc, holder,
                   waitq, interval, primed, cycles, wrote, found, listed>>

\* the body of one of the three for loops: ChannelId(..).say(..).await, which
\* delivers (ok) or fails; a failure is printed and the loop goes on
PollSay(i) ==
    /\ ppc[i] \in {"say_turns", "say_chal", "say_fin"}
    /\ \E ok \in BOOLEAN :
        LET q    == iter[PollTask(i)]
            cat  == Category(ppc[i])
            item == IF cat = "turn" THEN Head(q).id ELSE Head(q)
            next == CASE ppc[i] = "say_turns" -> "chal"
                      [] ppc[i] = "say_chal"  -> "fin"
                      [] ppc[i] = "say_fin"   -> "backoff"
        IN  /\ sent' = [sent EXCEPT ![i] = @ + 1]
            /\ log' = [log EXCEPT ![i] = Append(@, [cat |-> cat, item |-> item, ok |-> ok])]
            /\ tried' = Tried(tried, cat, item)
            /\ iter' = [iter EXCEPT ![PollTask(i)] = Tail(q)]
            /\ snap' = [snap EXCEPT ![i] = IF Tail(q) = <<>> THEN <<>> ELSE @]
            /\ ppc' = [ppc EXCEPT ![i] = IF Tail(q) = <<>> THEN next ELSE @]
    /\ UNCHANGED <<sr, now, mainpc, returned, structObs, looping, rpc, mpc, holder,
                   waitq, interval, primed, cycles, wrote, found, listed>>

\* PollBackoff with > in place of >= in the test of line 241
PollBackoffLate(i) ==
    /\ ppc[i] = "backoff"
    /\ interval' = [interval EXCEPT
                      ![i] = IF as_secs(now - sr.last_update) > IdleAfter
                             THEN 60 ELSE 5]
    /\ ppc' = [ppc EXCEPT ![i] = "sleep"]
    /\ UNCHANGED <<sr, now, mainpc, returned, structObs, looping, rpc, mpc, holder,
                   waitq, iter, sent, primed, cycles, wrote>>
    /\ UNCHANGED <<notifyObs, listed>>

\* if sr.last_update.elapsed().as_secs() >= (30 * 60): the sleep is chosen and begun
PollBackoff(i) ==
    /\ ppc[i] = "backoff"
    /\ interval' = [interval EXCEPT
                      ![i] = IF as_secs(now - sr.last_update) >= IdleAfter
                             THEN 60 ELSE 5]
    /\ ppc' = [ppc EXCEPT ![i] = "sleep"]
    /\ UNCHANGED <<sr, now, mainpc, returned, structObs, looping, rpc, mpc, holder,
                   waitq, iter, sent, primed, cycles, wrote>>
    /\ UNCHANGED <<notifyObs, listed>>

\* PollWake with the guard taken before the loop: the loop body ends with the
\* guard kept and the next cycle begins under it
PollWakeKeepsGuard(i) ==
    /\ ppc[i] = "sleep"
    /\ ppc' = [ppc EXCEPT ![i] = "turns"]
    /\ interval' = [interval EXCEPT ![i] = 0]
    /\ sent' = [sent EXCEPT ![i] = 0]
    /\ wrote' = [wrote EXCEPT ![i] = FALSE]
    /\ found' = [found EXCEPT ![i] = <<>>]
    /\ log' = [log EXCEPT ![i] = <<>>]
    /\ listed' = Unlisted(found[i])
    /\ primed' = NotPrimed
    /\ cycles' = Min(2, cycles + 1)
    /\ UNCHANGED <<sr, now, mainpc, returned, structObs, looping, rpc, mpc, holder,
                   waitq, iter, snap, tried>>

\* the sleep returns and the loop body ends: sr, the guard, is dropped here
PollWake(i) ==
    /\ ppc[i] = "sleep"
    /\ ppc' = [ppc EXCEPT ![i] = "lock"]
    /\ holder' = Released(PollTask(i))
    /\ interval' = [interval EXCEPT ![i] = 0]
    /\ sent' = [sent EXCEPT ![i] = 0]
    /\ wrote' = [wrote EXCEPT ![i] = FALSE]
    /\ found' = [found EXCEPT ![i] = <<>>]
    /\ log' = [log EXCEPT ![i] = <<>>]
    /\ listed' = Unlisted(found[i])
    /\ UNCHANGED <<sr, now, mainpc, returned, structObs, looping, rpc, mpc, waitq,
                   iter, primed, cycles, snap, tried>>

\* ---- Handler::message
\* the gateway delivers a message that starts with !chal, and the handler asks
\* for the lock: let sr = sr_lock.write().await
MsgChal(j) ==
    /\ mainpc = "started" /\ mpc[j] = "idle"
    /\ j > 1 => mpc[j - 1] # "idle"
    /\ mpc' = [mpc EXCEPT ![j] = "wait"]
    /\ waitq' = Append(waitq, MsgTask(j))
    /\ UNCHANGED <<sr, now, mainpc, returned, structObs, looping, rpc, ppc, holder,
                   iter, interval, sent, primed, cycles, wrote>>
    /\ UNCHANGED <<notifyObs, listed>>

\* the gateway delivers a message that starts with !version (in any case of
\* the letters) and the handler answers it; a message of neither kind leaves
\* the handler at once
MsgVersion(j) ==
    /\ mainpc = "started" /\ mpc[j] = "idle"
    /\ j > 1 => mpc[j - 1] # "idle"
    /\ mpc' = [mpc EXCEPT ![j] = "done"]
    /\ UNCHANGED <<sr, now, mainpc, returned, structObs, looping, rpc, ppc, holder,
                   waitq, iter, interval, sent, primed, cycles, wrote>>
    /\ UNCHANGED <<notifyObs, listed>>

\* ... and the guard
MsgGranted(j) ==
    /\ mpc[j] = "wait"
    /\ LockFree /\ waitq # <<>> /\ Head(waitq) = MsgTask(j)
    /\ holder' = MsgTask(j)
    /\ waitq' = Tail(waitq)
    /\ mpc' = [mpc EXCEPT ![j] = "fetch"]
    /\ UNCHANGED <<sr, now, mainpc, returned, structObs, looping, rpc, ppc,
                   iter, interval, sent, primed, cycles, wrote>>
    /\ UNCHANGED <<notifyObs, listed>>

\* MsgFetch through sr.check_challenges() in place of the raw fetch: the
\* challenges the command lists are recorded as seen
MsgFetchChecked(j) ==
    /\ mpc[j] = "fetch"
    /\ \E c \in IdLists :
          /\ iter' = [iter EXCEPT ![MsgTask(j)] = c]
          /\ listed' = [k \in ItemIds |->
                          listed[k] \/ (k \in Range(c) /\ k \notin Range(sr.challenges))]
          /\ sr' = check_challenges(sr, c, now).self
          /\ mpc' = [mpc EXCEPT ![j] = IF c = <<>> THEN "done" ELSE "say"]
          /\ holder' = IF c = <<>> THEN Released(MsgTask(j)) ELSE holder
    /\ UNCHANGED <<now, mainpc, returned, structObs, looping, rpc, ppc, waitq,
                   interval, sent, primed, cycles, wrote>>
    /\ UNCHANGED notifyObs

\* sr.sr.activity().await: every challenge of the snapshot is walked, seen or
\* not, and sr is not written; with none the handler is over and drops the guard
MsgFetch(j) ==
    /\ mpc[j] = "fetch"
    /\ \E c \in IdLists :
          /\ iter' = [iter EXCEPT ![MsgTask(j)] = c]
          /\ listed' = [k \in ItemIds |->
                          listed[k] \/ (k \in Range(c) /\ k \notin Range(sr.challenges))]
          /\ mpc' = [mpc EXCEPT ![j] = IF c = <<>> THEN "done" ELSE "say"]
          /\ holder' = IF c = <<>> THEN Released(MsgTask(j)) ELSE holder
    /\ UNCHANGED <<sr, now, mainpc, returned, structObs, looping, rpc, ppc, waitq,
                   interval, sent, primed, cycles, wrote>>
    /\ UNCHANGED notifyObs

\* .expect("Could not get activity"): the handler panics and drops the guard
MsgPanics(j) ==
    /\ mpc[j] = "fetch"
    /\ mpc' = [mpc EXCEPT ![j] = "panicked"]
    /\ holder' = Released(MsgTask(j))
    /\ UNCHANGED <<sr, now, mainpc, returned, structObs, looping, rpc, ppc, waitq,
                   iter, interval, sent, primed, cycles, wrote>>
    /\ UNCHANGED <<notifyObs, listed>>

\* msg.channel_id.say(..).await for one challenge; after the last the guard is dropped
MsgSay(j) ==
    /\ mpc[j] = "say"
    /\ LET q == Tail(iter[MsgTask(j)])
       IN  /\ iter' = [iter EXCEPT ![MsgTask(j)] = q]
           /\ mpc' = [mpc EXCEPT ![j] = IF q = <<>> THEN "done" ELSE @]
           /\ holder' = IF q = <<>> THEN Released(MsgTask(j)) ELSE holder
    /\ UNCHANGED <<sr, now, mainpc, returned, structObs, looping, rpc, ppc, waitq,
                   interval, sent, primed, cycles, wrote>>
    /\ UNCHANGED <<notifyObs, listed>>

Next ==
    \/ MainCheckTurns \/ MainCheckChallenges \/ MainCheckFinished \/ MainPanics
    \/ ClientStart
    \/ \E i \in Readies : ReadyLoad(i)
    \/ \E i \in Readies : ReadySwap(i)
    \/ \E i \in Readies : PollLock(i)
    \/ \E i \in Readies : PollGranted(i)
    \/ \E i \in Readies : PollCheckTurns(i)
    \/ \E i \in Readies : PollCheckChallenges(i)
    \/ \E i \in Readies : PollCheckFinished(i)
    \/ \E i \in Readies : PollPanics(i)
    \/ \E i \in Readies : PollSay(i)
    \/ \E i \in Readies : PollBackoff(i)
    \/ \E i \in Readies : PollWake(i)
    \/ \E j \in Msgs : MsgChal(j)
    \/ \E j \in Msgs : MsgGranted(j)
    \/ \E j \in Msgs : MsgFetch(j)
    \/ \E j \in Msgs : MsgPanics(j)
    \/ \E j \in Msgs : MsgSay(j)
    \/ \E j \in Msgs : MsgVersion(j)

Spec == Init /\ [][Next]_vars

\* ---- scheduling
\* the steps of poll task i and of message handler j once it asked for the lock
PollStep(i) ==
    \/ PollLock(i) \/ PollGranted(i)
    \/ PollCheckTurns(i) \/ PollCheckChallenges(i) \/ PollCheckFinished(i)
    \/ PollPanics(i) \/ PollSay(i) \/ PollBackoff(i) \/ PollWake(i)

MsgStep(j) == MsgGranted(j) \/ MsgFetch(j) \/ MsgPanics(j) \/ MsgSay(j)

\* the process for one ready event, with the message handlers
LiveNext ==
    \/ MainCheckTurns \/ MainCheckChallenges \/ MainCheckFinished \/ MainPanics
    \/ ClientStart
    \/ ReadyLoad(1) \/ ReadySwap(1)
    \/ PollStep(1)
    \/ \E j \in Msgs : MsgChal(j)
    \/ \E j \in Msgs : MsgVersion(j)
    \/ \E j \in Msgs : MsgStep(j)

\* ... under the tokio runtime: a task that can take a step is polled again,
\* so every fetch, delivery and sleep returns, and the lock is granted to the
\* first waiter once it is free
LiveSpec ==
    /\ Init /\ [][LiveNext]_vars
    /\ WF_vars(PollStep(1))
    /\ \A j \in Msgs : WF_vars(MsgStep(j))

\* the process with time passing, for one ready event and no message
TimedNext ==
    \/ MainCheckTurns \/ MainCheckChallenges \/ MainCheckFinished \/ MainPanics
    \/ ClientStart
    \/ ReadyLoad(1) \/ ReadySwap(1)
    \/ PollLock(1) \/ PollGranted(1)
    \/ PollCheckTurns(1) \/ PollCheckChallenges(1) \/ PollCheckFinished(1)
    \/ PollPanics(1) \/ PollSay(1) \/ PollBackoff(1) \/ PollWake(1)
    \/ Tick

TimedSpec == Init /\ [][TimedNext]_vars

\* ---------------------------------------------------------------- claims on the struct
\* C1: over new() and every later check_challenges / check_finished call, a
\* challenge id is returned by check_challenges at most once and a
\* finished-game id by check_finished at most once.
C1_ReturnedAtMostOnce ==
    \A i \in ItemIds : returned.chal[i] <= 1 /\ returned.fin[i] <= 1

\* a call was offered twice in one list an id that an earlier call had
\* returned, and returned nothing
C1_Witness ==
    /\ ncalls >= 1
    /\ last.op = "check_challenges"
    /\ last.activity = <<1, 1>>
    /\ last.ret = <<>>
    /\ returned.chal[1] = 1

\* C2: a check_turns call returns exactly the active games of the fetched
\* snapshot whose id is not in game_turns or whose turn-owner differs from
\* that of the recorded entry, each under its id.
C2_TurnsExact ==
    [][(last'.op = "check_turns" /\ tcalls' = tcalls + 1) =>
         LET gt   == sr.game_turns
             act  == last'.activity
             want == {act[i] : i \in
                        {k \in DOMAIN act :
                            \/ act[k].id \notin DOMAIN gt
                            \/ which_turn(gt[act[k].id]) # which_turn(act[k])}}
         IN  /\ Values(last'.ret) = want
             /\ \A k \in DOMAIN last'.ret : last'.ret[k].id = k]_vars

\* a call after new() returned one game of its snapshot, whose turn had
\* passed, and left out the other, whose turn-owner was the recorded one
C2_Witness ==
    /\ ncalls >= 1
    /\ last.op = "check_turns"
    /\ Len(last.activity) = 2
    /\ Cardinality(DOMAIN last.ret) = 1
    /\ watch.always /\ watch.changes = 1 /\ watch.game \in DOMAIN last.ret

\* C3: a game known from priming and present in every snapshot, whose
\* turn-owner changed exactly once between consecutive snapshots, was returned
\* by exactly one check_turns call since new(): the first whose snapshot
\* carried the new turn-owner.
C3_ReportedOnceAtChange ==
    (watch.always /\ tcalls >= 1 /\ watch.changes = 1) =>
        /\ watch.reports = 1
        /\ watch.firstReport = watch.firstChange

\* new(), a poll with the turn passed, a poll unchanged: the third call
\* returns nothing
C3_Witness ==
    /\ tcalls = 3
    /\ watch.always /\ watch.changes = 1 /\ watch.firstChange = 2
    /\ last.op = "check_turns" /\ last.ret = EmptyMap

\* C4: a check_turns call that fetches the snapshot the check_turns call
\* before it fetched returns the empty map.
C4_SecondCallEmpty ==
    (last.op = "check_turns" /\ last.same) => last.ret = EmptyMap

\* the same two games were fetched twice after new() and the first of the two
\* calls had returned one of them
C4_Witness ==
    /\ last.op = "check_turns" /\ last.same
    /\ tcalls = 3
    /\ Len(last.activity) = 2
    /\ watch.always /\ watch.reports = 1

\* C17: no step removes a game id from game_turns, also when the game is
\* missing from the snapshots; a game that was missing from a snapshot while
\* in game_turns and is back with the turn-owner recorded for it is not
\* returned.
C17_KeysOnlyGrow ==
    [][/\ DOMAIN sr.game_turns \subseteq DOMAIN sr'.game_turns
       /\ (/\ tcalls' = tcalls + 1
           /\ watch.gone
           /\ OwnerIn(last'.activity, watch.game) = which_turn(sr.game_turns[watch.game]))
          => watch.game \notin DOMAIN last'.ret]_vars

\* a game in game_turns missed a snapshot, is in the latest one with the
\* turn-owner recorded for it, and the call returned nothing
C17_Witness ==
    /\ watch.gone
    /\ last.op = "check_turns" /\ last.ret = EmptyMap
    /\ OwnerIn(last.activity, watch.game) # "absent"
    /\ watch.game \in DOMAIN sr.game_turns

\* C18: after a check_turns call every game of the snapshot it fetched is in
\* game_turns with the turn-owner it has in the snapshot, returned or not.
C18_RecordedMatchesSnapshot ==
    last.op = "check_turns" =>
        \A k \in DOMAIN last.activity :
            /\ last.activity[k].id \in DOMAIN sr.game_turns
            /\ which_turn(sr.game_turns[last.activity[k].id]) = which_turn(last.activity[k])

\* a call after new() fetched two games, returned the second and not the first
C18_Witness ==
    /\ last.op = "check_turns" /\ tcalls >= 2
    /\ Len(last.activity) = 2
    /\ DOMAIN last.ret = {last.activity[2].id}

\* ---------------------------------------------------------------- claims on the process
PollTasks == {i \in Readies : ppc[i] # "none"}

\* the tasks between taking the guard of sr and dropping it
InSection ==
    {PollTask(i) : i \in {k \in Readies :
        ppc[k] \in {"turns", "say_turns", "chal", "say_chal", "fin", "say_fin",
                    "backoff", "sleep"}}}
    \cup {MsgTask(j) : j \in {k \in Msgs : mpc[k] \in {"fetch", "say"}}}

\* C5: new() sends nothing, and as long as the first poll cycle fetches the
\* lists new() fetched it finds no turn change, no new challenge and no new
\* finished game: it has nothing to send and sends nothing.
C5_PrimedCycleSilent ==
    (cycles = 0 \/ (cycles = 1 /\ primed.known)) =>
        \A i \in Readies : sent[i] = 0 /\ iter[PollTask(i)] = <<>>

\* the first poll cycle has made its three calls on the snapshot of new(), two
\* games, a challenge and a finished game, and sleeps
C5_Witness ==
    /\ cycles = 1 /\ primed.known
    /\ Len(primed.active) = 2 /\ primed.chal # <<>> /\ primed.fin # <<>>
    /\ \E i \in Readies : ppc[i] = "sleep"

\* C6: a failed fetch of a poll cycle does not end the poll loop: no poll
\* task is ever gone.
C6_PollLoopSurvives ==
    \A i \in Readies : ppc[i] # "panicked"

\* C7: when a fetch of a poll cycle fails, sr is what it was when the cycle
\* began.
C7_FailedCycleLeavesState ==
    [][\A i \in Readies :
          (ppc[i] # "panicked" /\ ppc'[i] = "panicked") => ~wrote[i]]_vars

\* C8: at most one poll task is ever spawned.
C8_OnePollTask ==
    Cardinality(PollTasks) <= 1

\* C9: a sleeping poll task blocks nobody: no !chal handler waits for the
\* lock while the task that holds it sleeps.
C9_SleepBlocksNobody ==
    \A i \in Readies, j \in Msgs :
        ~(ppc[i] = "sleep" /\ holder = PollTask(i) /\ mpc[j] = "wait")

\* C10: at most one task is between taking the guard of sr and dropping it,
\* that task is the holder of the lock, and no game, challenge or finished
\* game is returned as new twice.
C10_ExclusiveAccess ==
    /\ Cardinality(InSection) <= 1
    /\ \A t \in InSection : holder = t
    /\ \A g \in GameIds : returned.game[g] <= 1
    /\ \A k \in ItemIds : returned.chal[k] <= 1 /\ returned.fin[k] <= 1

\* two poll tasks and a !chal handler are alive, one poll task is in its
\* cycle and the two others wait for the lock
C10_Witness ==
    /\ Cardinality(PollTasks) = 2
    /\ Len(waitq) = 2
    /\ \E i \in Readies : ppc[i] = "say_chal" /\ holder = PollTask(i)
    /\ \E j \in Msgs : mpc[j] = "wait"

\* ---------------------------------------------------------------- claims on the clock
\* a step that is a detect operation: one of new() or one of the calls after it
IsDetect ==
    \/ ncalls' = ncalls + 1
    \/ mainpc \in {"new_turns", "new_challenges", "new_finished"}
         /\ mainpc' \in {"new_challenges", "new_finished", "primed"} /\ mainpc' # mainpc

\* C11: a detect operation that returns at least one item sets last_update to
\* the time of the call, one that returns nothing leaves last_update as it
\* was, and no step makes last_update smaller.
C11_StampIffReturned ==
    [][/\ sr'.last_update >= sr.last_update
       /\ IsDetect =>
            /\ (last'.ret # EmptyMap /\ last'.ret # <<>>) => sr'.last_update = now
            /\ (last'.ret = EmptyMap \/ last'.ret = <<>>) => sr'.last_update = sr.last_update
       /\ ~IsDetect => sr'.last_update = sr.last_update]_vars

\* a call stamped last_update after time had passed, more time passed, and
\* the latest call, a check_challenges offered a challenge, returned nothing
\* and left the stamp
C11_Witness ==
    /\ ncalls >= 2
    /\ last.op = "check_challenges" /\ last.activity # <<>> /\ last.ret = <<>>
    /\ 0 < sr.last_update /\ sr.last_update < now

\* C12: the sleep a poll cycle ends with lasts 60 seconds when at least 30
\* minutes have passed since last_update and 5 seconds otherwise: half a
\* second less than 30 minutes gives 5, exactly 30 minutes gives 60.
C12_BackoffInterval ==
    [][\A i \in Readies :
          (ppc[i] = "backoff" /\ ppc'[i] = "sleep") =>
              interval'[i] = IF now - sr.last_update >= from_secs(30 * 60)
                             THEN 60 ELSE 5]_vars

\* a cycle ended exactly 30 minutes after last_update and sleeps 60 seconds
C12_Witness ==
    \E i \in Readies :
        /\ ppc[i] = "sleep" /\ interval[i] = 60
        /\ now - sr.last_update = from_secs(30 * 60)

\* ---------------------------------------------------------------- claims on the notifications
\* the place of a category in the fixed order
Rank(cat) == CASE cat = "turn" -> 1 [] cat = "chal" -> 2 [] cat = "fin" -> 3

\* the first place of id in a list of ids
FirstIndex(ids, id) == CHOOSE k \in DOMAIN ids : ids[k] = id /\ \A j \in 1..(k - 1) : ids[j] # id

\* the items a poll task has yet to deliver in the for loop it is in
Pending(i) ==
    LET q == iter[PollTask(i)]
    IN  IF ppc[i] = "say_turns" THEN Detected(<<>>, "turn", IdsOf(q))
        ELSE IF ppc[i] = "say_chal" THEN Detected(<<>>, "chal", q)
        ELSE IF ppc[i] = "say_fin" THEN Detected(<<>>, "fin", q)
        ELSE <<>>

\* the items of the say() calls a poll task has made in its cycle
Attempted(i) == [k \in DOMAIN log[i] |-> [cat |-> log[i][k].cat, item |-> log[i][k].item]]

\* C13: in a poll cycle no challenge notification is sent before a turn
\* notification and no finished-game notification before a turn or a
\* challenge notification.
C13_CategoryOrder ==
    \A i \in Readies : \A p, q \in DOMAIN log[i] :
        p < q => Rank(log[i][p].cat) <= Rank(log[i][q].cat)

\* a cycle has sent a notification of each category
C13_Witness ==
    \E i \in Readies :
        /\ Len(log[i]) >= 3
        /\ {log[i][k].cat : k \in DOMAIN log[i]} = {"turn", "chal", "fin"}

\* C14: in each of the three for loops of a poll cycle the notifications are
\* sent in the order of the list fetched for the loop: an item that comes
\* first in the list is delivered first.
C14_SnapshotOrder ==
    \A i \in Readies :
        ppc[i] \in {"say_turns", "say_chal", "say_fin"} =>
            LET todo == Pending(i)
            IN  \A p, q \in DOMAIN todo :
                    p < q => FirstIndex(snap[i], todo[p].item) < FirstIndex(snap[i], todo[q].item)

DetectedNow(k) ==
    \E i \in Readies : [cat |-> "chal", item |-> k] \in Range(found[i])

\* C16: no step of a !chal handler changes sr, and a challenge the command
\* listed while it was not in sr.challenges stays out of sr.challenges until a
\* poll cycle detects it, and that cycle has it among the items it reports.
C16_ChalKeepsNovelty ==
    [][/\ \A j \in Msgs : mpc'[j] # mpc[j] => sr' = sr
       /\ \A k \in ItemIds :
             (listed'[k] /\ k \in Range(sr'.challenges)) =>
                 \E i \in Readies : [cat |-> "chal", item |-> k] \in Range(found'[i])]_vars

\* the command listed a challenge the tracker had not seen, and the poll cycle
\* after it has detected the challenge and sent its notification
C16_Witness ==
    /\ \E j \in Msgs : mpc[j] = "done"
    /\ \E k \in ItemIds :
          /\ listed[k] /\ DetectedNow(k) /\ tried.chal[k] = 1
          /\ k \in Range(sr.challenges)

\* ---------------------------------------------------------------- claims on the start guard
\* C19: the looping flag, once set, stays set; a ready handler that reads it
\* set spawns no poll task; a poll task that has panicked stays gone; so when
\* the flag is set and every poll task spawned so far has panicked, no poll
\* task ever runs again.
C19_NoRespawn ==
    [][/\ looping => looping'
       /\ \A i \in Readies :
             /\ (looping /\ rpc[i] = "idle") => ppc'[i] = "none"
             /\ ppc[i] = "panicked" => ppc'[i] = "panicked"
       /\ (looping /\ \A i \in Readies : ppc[i] \in {"none", "panicked"})
             => \A i \in Readies : ppc'[i] \in {"none", "panicked"}]_vars

\* the one poll task has panicked, the flag is set, and a later ready event
\* has been handled without a poll task being spawned
C19_Witness ==
    /\ looping
    /\ ppc[1] = "panicked" /\ ppc[2] = "none"
    /\ rpc[1] = "done" /\ rpc[2] = "done"

\* ---------------------------------------------------------------- claims on the lock
\* C20: a !chal handler waiting in sr_lock.write().await is granted the guard
\* in the end, while the poll loop runs cycle after cycle or panics.
C20_ChalGetsLock ==
    \A j \in Msgs : (mpc[j] = "wait") ~> (mpc[j] = "fetch")

\* the handler asked for the lock during a poll cycle and holds it now, with
\* the poll task that was in the cycle waiting behind it
C20_Witness ==
    \E j \in Msgs, i \in Readies :
        /\ mpc[j] = "fetch" /\ holder = MsgTask(j)
        /\ cycles >= 1 /\ ppc[i] = "wait"

====
